---- MODULE Spec2Model ----
(***************************************************************************)
(* Hex: the Python back end (src/backend/back.py: win detection,           *)
(* evaluation, alpha-beta search, opening and swap policy) and the game    *)
(* object and window handlers that drive it (src/frontend/front.py).       *)
(* The C++ extension is not importable, so USE_CPP_IMPLEMENTATION is       *)
(* False and every back-end call takes the Python path.                    *)
(***************************************************************************)
EXTENDS Integers, Sequences, FiniteSets, TLC

\* ------------------------------------------------------------------ bounds
\* Largest board side of a HexState handed to the back end.
MaxSize == 3
\* Largest number of stones a caller puts on such a board.
MaxStones == 3
\* Largest search depth a caller asks for.
MaxDepth == 2
\* Largest board side of a position handed to alpha_beta_search directly.
MaxSearchSize == 2

\* ------------------------------------------------------- values and helpers
\* The board side HexWindow gives its HexGame.
DefaultSize == 11

\* float('inf'): larger than every score the evaluation can produce.
Inf == 1000000

\* Python's None for a move; a move is a pair <<row, col>>.
None == <<>>

\* An attribute that was never assigned; an assigned attribute v is <<v>>.
NoAttr == <<>>

Abs(x) == IF x < 0 THEN -x ELSE x

Max2(a, b) == IF a >= b THEN a ELSE b

Min2(a, b) == IF a <= b THEN a ELSE b

\* len(board)
BoardLen(board) == Cardinality(DOMAIN board)

Cells(size) == (0 .. size - 1) \X (0 .. size - 1)

\* [[0] * size for _ in range(size)]
EmptyBoard(size) == [r \in 0 .. size - 1 |-> [c \in 0 .. size - 1 |-> 0]]

\* sum(row.count(v) for row in board)
CountCells(board, v) ==
  Cardinality({cell \in Cells(BoardLen(board)) : board[cell[1]][cell[2]] = v})

\* Row-major position of a cell: the order of the nested range() loops.
RowMajor(size, cell) == cell[1] * size + cell[2]

\* ------------------------------------------------------------ back.py
\* A mis-typed neighbour table: (1,-1) written as (1,1).
DIRECTIONS_square == << <<-1, 0>>, <<-1, 1>>, <<0, -1>>, <<0, 1>>, <<1, 1>>, <<1, 0>> >>

DIRECTIONS == << <<-1, 0>>, <<-1, 1>>, <<0, -1>>, <<0, 1>>, <<1, -1>>, <<1, 0>> >>

\* The in-bounds test written with <= size: one row and column too many.
neighbours_closed(size, row, col) ==
  {<<row + DIRECTIONS[i][1], col + DIRECTIONS[i][2]>> : i \in 1 .. Len(DIRECTIONS)}
    \cap ((0 .. size) \X (0 .. size))

\* The cells (nr, nc) that pass dfs_path's test 0 <= nr < size and
\* 0 <= nc < size, for the six offsets from (row, col).
neighbours(size, row, col) ==
  {<<row + DIRECTIONS[i][1], col + DIRECTIONS[i][2]>> : i \in 1 .. Len(DIRECTIONS)}
    \cap Cells(size)

\* HexState.__init__: board, size, is_black_turn; no player_turn attribute.
HexState(size, is_black_turn) ==
  [board |-> EmptyBoard(size), size |-> size,
   is_black_turn |-> is_black_turn, player_turn |-> NoAttr]

RECURSIVE dfs_path(_, _, _, _, _, _)
RECURSIVE dfs_path_loop(_, _, _, _, _, _, _)

\* The for loop over DIRECTIONS inside dfs_path, from the i-th direction on.
\* The visited matrix is shared by all calls, so it is threaded through.
dfs_path_loop(board, row, col, player, visited, direction, i) ==
  IF i > Len(DIRECTIONS) THEN [found |-> FALSE, visited |-> visited]
  ELSE LET size == BoardLen(board)
           nr == row + DIRECTIONS[i][1]
           nc == col + DIRECTIONS[i][2]
       IN IF /\ 0 <= nr /\ nr < size /\ 0 <= nc /\ nc < size
             /\ <<nr, nc>> \notin visited
             /\ board[nr][nc] = player
          THEN LET sub == dfs_path(board, nr, nc, player, visited, direction)
               IN IF sub.found THEN sub
                  ELSE dfs_path_loop(board, row, col, player, sub.visited, direction, i + 1)
          ELSE dfs_path_loop(board, row, col, player, visited, direction, i + 1)

dfs_path(board, row, col, player, visited, direction) ==
  LET size == BoardLen(board)
  IN IF direction = 1 /\ row = size - 1
     THEN [found |-> board[row][col] = player, visited |-> visited]
     ELSE IF direction = 2 /\ col = size - 1
     THEN [found |-> board[row][col] = player, visited |-> visited]
     ELSE IF board[row][col] # player
     THEN [found |-> FALSE, visited |-> visited]
     ELSE dfs_path_loop(board, row, col, player, visited \cup {<<row, col>>}, direction, 1)

RECURSIVE has_winning_path_loop(_, _, _, _)

\* A start-edge stone taken for a win, without the search for a path.
has_winning_path_loop_edge(board, player, i, visited) ==
  \E k \in i .. BoardLen(board) - 1 :
    (IF player = 1 THEN board[0][k] ELSE board[k][0]) = player

\* The loop over the start edge, from its i-th cell on.
has_winning_path_loop(board, player, i, visited) ==
  LET size == BoardLen(board)
      row == IF player = 1 THEN 0 ELSE i
      col == IF player = 1 THEN i ELSE 0
  IN IF i >= size THEN FALSE
     ELSE IF board[row][col] = player /\ <<row, col>> \notin visited
     THEN LET sub == dfs_path(board, row, col, player, visited, IF player = 1 THEN 1 ELSE 2)
          IN IF sub.found THEN TRUE
             ELSE has_winning_path_loop(board, player, i + 1, sub.visited)
     ELSE has_winning_path_loop(board, player, i + 1, visited)

\* Both players searched top to bottom: the player == 1 branch for either.
has_winning_path_rows(board, player) ==
  LET top == {c \in 0 .. BoardLen(board) - 1 : board[0][c] = player}
  IN \E c \in top : dfs_path(board, 0, c, player, {}, 1).found

has_winning_path(board, player) == has_winning_path_loop(board, player, 0, {})

\* check_win: USE_CPP_IMPLEMENTATION is False.
check_win(board, player) == has_winning_path(board, player)

RECURSIVE bfs_loop(_, _, _, _)

\* bfs's while loop: pop the head of the queue, append and mark its unvisited
\* in-bounds neighbours that hold the player's stone, in DIRECTIONS order.
bfs_loop(board, player, queue, visited) ==
  IF queue = <<>> THEN visited
  ELSE LET r == Head(queue)[1]
           c == Head(queue)[2]
           around == [i \in 1 .. Len(DIRECTIONS) |->
                        <<r + DIRECTIONS[i][1], c + DIRECTIONS[i][2]>>]
           Fresh(cell) == /\ cell \in Cells(BoardLen(board))
                          /\ board[cell[1]][cell[2]] = player
                          /\ cell \notin visited
           found == SelectSeq(around, Fresh)
       IN bfs_loop(board, player, Tail(queue) \o found,
                   visited \cup {found[i] : i \in 1 .. Len(found)})

\* bfs returns nothing; its effect is on the visited set, returned here.
bfs(board, row, col, player, visited) ==
  bfs_loop(board, player, <<(<<row, col>>)>>, visited \cup {<<row, col>>})

RECURSIVE count_connected_components_from(_, _, _, _)

\* The nested loops of count_connected_components from row-major position k.
count_connected_components_from(board, player, k, visited) ==
  LET size == BoardLen(board)
      i == k \div size
      j == k % size
  IN IF k >= size * size THEN 0
     ELSE IF board[i][j] = player /\ <<i, j>> \notin visited
     THEN 1 + count_connected_components_from(board, player, k + 1,
                                              bfs(board, i, j, player, visited))
     ELSE count_connected_components_from(board, player, k + 1, visited)

count_connected_components(board, player) ==
  count_connected_components_from(board, player, 0, {})

connectivity_heuristic(state) ==
  LET red_score == count_connected_components(state.board, 1)
      blue_score == count_connected_components(state.board, 2)
  IN IF state.is_black_turn THEN red_score - blue_score ELSE blue_score - red_score

\* An evaluation from player 1's side whoever is to move.
evaluate_absolute(state) ==
  IF has_winning_path(state.board, 1) THEN 1000
  ELSE IF has_winning_path(state.board, 2) THEN -1000
  ELSE connectivity_heuristic(state)

\* evaluate (the Python definition, USE_CPP_IMPLEMENTATION being False).
evaluate(state) ==
  LET red_win == has_winning_path(state.board, 1)
      blue_win == has_winning_path(state.board, 2)
  IN IF red_win THEN (IF state.is_black_turn THEN 1000 ELSE -1000)
     ELSE IF blue_win THEN (IF state.is_black_turn THEN -1000 ELSE 1000)
     ELSE connectivity_heuristic(state)

\* The outcome of a call: a returned value, or the exception that left it.
Returned(value) == [exc |-> "", value |-> value]

Raised(exc) == [exc |-> exc, value |-> None]

RECURSIVE has_connection_dfs(_, _, _, _, _, _, _)
RECURSIVE has_connection_loop(_, _, _, _, _, _, _, _)

\* The for loop over DIRECTIONS inside has_connection's dfs.
has_connection_loop(board, r, c, end_row, end_col, player, visited, i) ==
  IF i > Len(DIRECTIONS) THEN [found |-> FALSE, visited |-> visited]
  ELSE LET size == BoardLen(board)
           nr == r + DIRECTIONS[i][1]
           nc == c + DIRECTIONS[i][2]
       IN IF /\ 0 <= nr /\ nr < size /\ 0 <= nc /\ nc < size
             /\ board[nr][nc] = player
             /\ <<nr, nc>> \notin visited
          THEN LET sub == has_connection_dfs(board, nr, nc, end_row, end_col, player, visited)
               IN IF sub.found THEN sub
                  ELSE has_connection_loop(board, r, c, end_row, end_col, player, sub.visited, i + 1)
          ELSE has_connection_loop(board, r, c, end_row, end_col, player, visited, i + 1)

\* has_connection's inner dfs(r, c).
has_connection_dfs(board, r, c, end_row, end_col, player, visited) ==
  IF r = end_row /\ c = end_col THEN [found |-> TRUE, visited |-> visited]
  ELSE has_connection_loop(board, r, c, end_row, end_col, player, visited \cup {<<r, c>>}, 1)

has_connection(board, start_row, start_col, end_row, end_col, player) ==
  has_connection_dfs(board, start_row, start_col, end_row, end_col, player, {}).found

is_redundant_move(board, row, col, player) ==
  LET size == BoardLen(board)
      Adjacent(i) == <<row + DIRECTIONS[i][1], col + DIRECTIONS[i][2]>>
      adjacent_player_cells ==
        {i \in 1 .. Len(DIRECTIONS) :
           /\ Adjacent(i) \in Cells(size)
           /\ board[Adjacent(i)[1]][Adjacent(i)[2]] = player}
  IN IF Cardinality(adjacent_player_cells) < 2 THEN FALSE
     ELSE \E i, j \in adjacent_player_cells :
            /\ i < j
            /\ has_connection(board, Adjacent(i)[1], Adjacent(i)[2],
                              Adjacent(j)[1], Adjacent(j)[2], player)

shortest_path_distance(board, player) ==
  LET size == BoardLen(board)
      first_edge == IF player = 1
                    THEN \E c \in 0 .. size - 1 : board[0][c] = player
                    ELSE \E r \in 0 .. size - 1 : board[r][0] = player
      last_edge == IF player = 1
                   THEN \E c \in 0 .. size - 1 : board[size - 1][c] = player
                   ELSE \E r \in 0 .. size - 1 : board[r][size - 1] = player
      empty_count ==
        IF player = 1
        THEN Cardinality({cell \in (1 .. size - 2) \X (0 .. size - 1) : board[cell[1]][cell[2]] = 0})
        ELSE Cardinality({cell \in (0 .. size - 1) \X (1 .. size - 2) : board[cell[1]][cell[2]] = 0})
      min_distance == IF ~(first_edge /\ last_edge) THEN size ELSE empty_count \div size
  IN IF min_distance > 0 THEN min_distance ELSE 1

evaluate_state(state, player) ==
  LET opponent == 3 - player
      board == state.board
      size == BoardLen(board)
      score == CountCells(board, player) - CountCells(board, opponent)
      player_distance == shortest_path_distance(board, player)
      opponent_distance == shortest_path_distance(board, opponent)
      path_score == IF player_distance = Inf THEN -50
                    ELSE IF opponent_distance = Inf THEN 50
                    ELSE opponent_distance - player_distance
      center == size \div 2
      Control(p) == Cardinality({cell \in Cells(size) :
                      /\ board[cell[1]][cell[2]] = p
                      /\ Abs(cell[1] - center) + Abs(cell[2] - center) <= center})
      center_score == (Control(player) - Control(opponent)) * 2
      redundant_moves_penalty ==
        (-5) * Cardinality({cell \in Cells(size) :
                 /\ board[cell[1]][cell[2]] = 0
                 /\ is_redundant_move(board, cell[1], cell[2], player)})
  IN score * 10 + path_score * 30 + center_score * 20 + redundant_moves_penalty

RECURSIVE get_valid_moves_from(_, _)

\* The list comprehension of get_valid_moves, from row-major position k on.
get_valid_moves_from(board, k) ==
  LET size == BoardLen(board)
      row == k \div size
      col == k % size
  IN IF k >= size * size THEN <<>>
     ELSE IF board[row][col] = 0
     THEN <<(<<row, col>>)>> \o get_valid_moves_from(board, k + 1)
     ELSE get_valid_moves_from(board, k + 1)

get_valid_moves(state) == get_valid_moves_from(state.board, 0)

\* clone_state reads state.player_turn, which HexState.__init__ never sets:
\* on a state without it the attribute lookup raises AttributeError.
clone_state(state) ==
  IF state.player_turn = NoAttr THEN Raised("AttributeError")
  ELSE Returned([HexState(BoardLen(state.board), state.player_turn[1]) EXCEPT !.board = state.board])

\* A search result (score, move).  `visited` lists the candidates the node's
\* for loop has taken from the shuffled valid_moves, in the order taken.
Scored(score, move) == [exc |-> "", score |-> score, move |-> move, visited |-> <<>>]

RECURSIVE alpha_beta_search(_, _, _, _, _)
RECURSIVE alpha_beta_loop(_, _, _, _, _, _, _, _)

\* The for loop over the shuffled valid_moves.  random.shuffle makes every
\* visiting order possible, so the next move is any move not yet visited.
\* The result is the set of outcomes over all orders.
alpha_beta_loop(state, depth, alpha, beta, maximizing_player, remaining, best_score, best_move) ==
  IF remaining = {} THEN {Scored(best_score, best_move)}
  ELSE UNION {
    LET player == IF maximizing_player THEN 1 ELSE 2
        cloned == clone_state(state)
    IN IF cloned.exc # ""
       THEN {[exc |-> cloned.exc, score |-> 0, move |-> None, visited |-> <<move>>]}
       ELSE IF state.player_turn = NoAttr
       THEN {[exc |-> "AttributeError", score |-> 0, move |-> None, visited |-> <<move>>]}
       ELSE LET new_state == [cloned.value EXCEPT
                                !.board[move[1]][move[2]] = player,
                                !.player_turn = <<~state.player_turn[1]>>]
            IN UNION {
                 IF sub.exc # "" THEN {[sub EXCEPT !.visited = <<move>>]}
                 ELSE LET better == IF maximizing_player
                                    THEN sub.score > best_score
                                    ELSE sub.score < best_score
                          new_score == IF better THEN sub.score ELSE best_score
                          new_move == IF better THEN move ELSE best_move
                          new_alpha == IF maximizing_player THEN Max2(alpha, new_score) ELSE alpha
                          new_beta == IF maximizing_player THEN beta ELSE Min2(beta, new_score)
                      IN IF new_beta <= new_alpha
                         THEN {[Scored(new_score, new_move) EXCEPT !.visited = <<move>>]}
                         ELSE {[rest EXCEPT !.visited = <<move>> \o @] :
                                 rest \in alpha_beta_loop(state, depth, new_alpha, new_beta,
                                                          maximizing_player, remaining \ {move},
                                                          new_score, new_move)}
                 : sub \in alpha_beta_search(new_state, depth - 1, alpha, beta,
                                             ~maximizing_player)}
    : move \in remaining}

alpha_beta_search(state, depth, alpha, beta, maximizing_player) ==
  LET player == IF maximizing_player THEN 1 ELSE 2
      opponent == IF maximizing_player THEN 2 ELSE 1
      valid_moves == get_valid_moves(state)
  IN IF check_win(state.board, player) THEN {Scored(1000, None)}
     ELSE IF check_win(state.board, opponent) THEN {Scored(-1000, None)}
     ELSE IF depth = 0 THEN {Scored(evaluate_state(state, player), None)}
     ELSE IF valid_moves = <<>> THEN {Scored(0, None)}
     ELSE alpha_beta_loop(state, depth, alpha, beta, maximizing_player,
                          {valid_moves[k] : k \in 1 .. Len(valid_moves)},
                          IF maximizing_player THEN -Inf ELSE Inf, None)

\* A jitter that can leave the centre's neighbourhood.
JITTER_wide == {-2, 0, 2}

\* random.choice([-1, 0, 1])
JITTER == {-1, 0, 1}

\* The set of outcomes of find_best_move(state, depth) over every random draw.
find_best_move(state, depth) ==
  LET player == IF state.is_black_turn THEN 1 ELSE 2
      size == BoardLen(state.board)
      empty_count == CountCells(state.board, 0)
      center == size \div 2
      swappable == {cell \in Cells(size) :
                      /\ state.board[cell[1]][cell[2]] = 1
                      /\ Abs(cell[1] - center) <= 1
                      /\ Abs(cell[2] - center) <= 1}
      first == CHOOSE cell \in swappable :
                 \A other \in swappable : RowMajor(size, cell) <= RowMajor(size, other)
  IN IF empty_count = size * size
     THEN {Returned(<<center + offset, center>>) : offset \in JITTER}
     ELSE IF empty_count = size * size - 1 /\ player = 2 /\ swappable # {}
     THEN {Returned(<<first[2], first[1]>>)}
     ELSE {IF found.exc # "" THEN Raised(found.exc)
           ELSE Returned(IF found.move # None THEN found.move ELSE <<-1, -1>>)
           : found \in alpha_beta_search(state, depth, -Inf, Inf, state.is_black_turn)}

\* A search that places the candidate on `state` itself instead of a clone
\* and does not take it back.
find_best_move_call_in_place(state, depth) ==
  LET valid_moves == get_valid_moves(state)
      player == IF state.is_black_turn THEN 1 ELSE 2
  IN {[out |-> out,
       state |-> IF valid_moves = <<>> THEN state
                 ELSE [state EXCEPT !.board[valid_moves[1][1]][valid_moves[1][2]] = player]]
      : out \in find_best_move(state, depth)}

\* find_best_move as its caller sees it: what it returned or raised, and the
\* HexState the caller passed as it is afterwards.  find_best_move assigns
\* to nothing; alpha_beta_search assigns only to new_state, the object that
\* clone_state constructs with rows copied by row[:], so no assignment
\* reaches an attribute or a row of the caller's state.
find_best_move_call(state, depth) ==
  {[out |-> out, state |-> state] : out \in find_best_move(state, depth)}

\* ------------------------------------------------------------ hex_ai_ai.py
\* The stand-alone Python engine in src/frontend: the same HexState, its own
\* win search and evaluation.  Its names are prefixed hex_ai_ai_ here.
\* The local list `directions` of bfs and dfs_path.
hex_ai_ai_directions == << <<-1, 0>>, <<-1, 1>>, <<0, -1>>, <<0, 1>>, <<1, -1>>, <<1, 0>> >>

RECURSIVE hex_ai_ai_bfs_loop(_, _, _, _)

hex_ai_ai_bfs_loop(board, player, queue, visited) ==
  IF queue = <<>> THEN visited
  ELSE LET r == Head(queue)[1]
           c == Head(queue)[2]
           around == [i \in 1 .. Len(hex_ai_ai_directions) |->
                        <<r + hex_ai_ai_directions[i][1], c + hex_ai_ai_directions[i][2]>>]
           Fresh(cell) == /\ cell \in Cells(BoardLen(board))
                          /\ board[cell[1]][cell[2]] = player
                          /\ cell \notin visited
           found == SelectSeq(around, Fresh)
       IN hex_ai_ai_bfs_loop(board, player, Tail(queue) \o found,
                             visited \cup {found[i] : i \in 1 .. Len(found)})

hex_ai_ai_bfs(board, row, col, player, visited) ==
  hex_ai_ai_bfs_loop(board, player, <<(<<row, col>>)>>, visited \cup {<<row, col>>})

RECURSIVE hex_ai_ai_count_connected_components_from(_, _, _, _)

hex_ai_ai_count_connected_components_from(board, player, k, visited) ==
  LET size == BoardLen(board)
      i == k \div size
      j == k % size
  IN IF k >= size * size THEN 0
     ELSE IF board[i][j] = player /\ <<i, j>> \notin visited
     THEN 1 + hex_ai_ai_count_connected_components_from(
                board, player, k + 1, hex_ai_ai_bfs(board, i, j, player, visited))
     ELSE hex_ai_ai_count_connected_components_from(board, player, k + 1, visited)

hex_ai_ai_count_connected_components(board, player) ==
  hex_ai_ai_count_connected_components_from(board, player, 0, {})

hex_ai_ai_connectivity_heuristic(state) ==
  LET red_score == hex_ai_ai_count_connected_components(state.board, 1)
      blue_score == hex_ai_ai_count_connected_components(state.board, 2)
  IN IF state.is_black_turn THEN red_score - blue_score ELSE blue_score - red_score

RECURSIVE hex_ai_ai_dfs_path(_, _, _, _, _, _)
RECURSIVE hex_ai_ai_dfs_path_loop(_, _, _, _, _, _, _)

hex_ai_ai_dfs_path_loop(board, row, col, player, visited, direction, i) ==
  IF i > Len(hex_ai_ai_directions) THEN [found |-> FALSE, visited |-> visited]
  ELSE LET size == BoardLen(board)
           nr == row + hex_ai_ai_directions[i][1]
           nc == col + hex_ai_ai_directions[i][2]
       IN IF /\ 0 <= nr /\ nr < size /\ 0 <= nc /\ nc < size
             /\ board[nr][nc] = player
             /\ <<nr, nc>> \notin visited
          THEN LET sub == hex_ai_ai_dfs_path(board, nr, nc, player, visited, direction)
               IN IF sub.found THEN sub
                  ELSE hex_ai_ai_dfs_path_loop(board, row, col, player, sub.visited,
                                               direction, i + 1)
          ELSE hex_ai_ai_dfs_path_loop(board, row, col, player, visited, direction, i + 1)

\* A goal test that takes either far edge for the goal of both directions.
hex_ai_ai_dfs_path_any_edge(board, row, col, player, visited, direction) ==
  LET size == BoardLen(board)
  IN IF row = size - 1 \/ col = size - 1
     THEN [found |-> TRUE, visited |-> visited]
     ELSE hex_ai_ai_dfs_path_loop(board, row, col, player,
                                  visited \cup {<<row, col>>}, direction, 1)

\* This dfs_path answers True on the goal edge without looking at the cell;
\* its callers only pass cells that hold the player's stone.
hex_ai_ai_dfs_path(board, row, col, player, visited, direction) ==
  LET size == BoardLen(board)
  IN IF (direction = 1 /\ row = size - 1) \/ (direction = 2 /\ col = size - 1)
     THEN [found |-> TRUE, visited |-> visited]
     ELSE hex_ai_ai_dfs_path_loop(board, row, col, player,
                                  visited \cup {<<row, col>>}, direction, 1)

RECURSIVE hex_ai_ai_has_winning_path_loop(_, _, _, _)

hex_ai_ai_has_winning_path_loop(board, player, i, visited) ==
  LET size == BoardLen(board)
      row == IF player = 1 THEN 0 ELSE i
      col == IF player = 1 THEN i ELSE 0
  IN IF i >= size THEN FALSE
     ELSE IF board[row][col] = player /\ <<row, col>> \notin visited
     THEN LET sub == hex_ai_ai_dfs_path(board, row, col, player, visited,
                                        IF player = 1 THEN 1 ELSE 2)
          IN IF sub.found THEN TRUE
             ELSE hex_ai_ai_has_winning_path_loop(board, player, i + 1, sub.visited)
     ELSE hex_ai_ai_has_winning_path_loop(board, player, i + 1, visited)

hex_ai_ai_has_winning_path(board, player) ==
  hex_ai_ai_has_winning_path_loop(board, player, 0, {})

hex_ai_ai_evaluate(state) ==
  LET red_win == hex_ai_ai_has_winning_path(state.board, 1)
      blue_win == hex_ai_ai_has_winning_path(state.board, 2)
  IN IF red_win THEN (IF state.is_black_turn THEN 1000 ELSE -1000)
     ELSE IF blue_win THEN (IF state.is_black_turn THEN -1000 ELSE 1000)
     ELSE hex_ai_ai_connectivity_heuristic(state)

RECURSIVE hex_ai_ai_check_win_loop(_, _, _, _)

\* check_win's loop over the start edge, from its i-th cell on.
hex_ai_ai_check_win_loop(board, player, i, visited) ==
  LET size == BoardLen(board)
      row == IF player = 1 THEN 0 ELSE i
      col == IF player = 1 THEN i ELSE 0
  IN IF i >= size THEN FALSE
     ELSE IF board[row][col] = player /\ <<row, col>> \notin visited
     THEN LET sub == hex_ai_ai_dfs_path(board, row, col, player, visited,
                                        IF player = 1 THEN 1 ELSE 2)
          IN IF sub.found THEN TRUE
             ELSE hex_ai_ai_check_win_loop(board, player, i + 1, sub.visited)
     ELSE hex_ai_ai_check_win_loop(board, player, i + 1, visited)

hex_ai_ai_check_win(board, player) == hex_ai_ai_check_win_loop(board, player, 0, {})

\* ------------------------------------------------------------ front.py
\* A call on the game object: the object afterwards, and what the call
\* returned or raised.
Outcome(game, exc, value) == [game |-> game, exc |-> exc, value |-> value]

\* HexGame.__init__.  winner 0 stands for None; col_labels and row_labels
\* are the first `size` letters and the numbers 1 .. size.
HexGame(size) ==
  [size |-> size,
   board |-> EmptyBoard(size),
   is_black_turn |-> TRUE,
   moves_history |-> <<>>,
   first_move |-> None,
   move_count |-> 0,
   game_over |-> FALSE,
   winner |-> 0,
   board_states |-> <<>>,
   current_view_index |-> -1,
   viewing_history |-> FALSE,
   paused |-> FALSE]

\* A Python list index: -n .. -1 count from the end, anything else outside
\* 0 .. n-1 raises IndexError.
IndexOk(i, n) == -n <= i /\ i < n

PyIndex(i, n) == IF i < 0 THEN i + n ELSE i

to_python_state(game) ==
  [HexState(game.size, game.is_black_turn) EXCEPT !.board = game.board]

\* make_move's body without the hand-over of the turn.
PlaceStone_keeps_turn(game, row, col) ==
  LET r == PyIndex(row, game.size)
      c == PyIndex(col, game.size)
      player_color == IF game.is_black_turn THEN "Blue" ELSE "Red"
      placed == [game.board EXCEPT ![r][c] = IF game.is_black_turn THEN 1 ELSE 2]
  IN [game EXCEPT
        !.board = placed,
        !.moves_history = Append(@, <<player_color, c, r + 1>>),
        !.move_count = @ + 1,
        !.first_move = IF game.move_count + 1 = 1 THEN <<row, col>> ELSE @,
        !.board_states = Append(@, placed),
        !.current_view_index = -1]

\* The body of make_move after its guard, on the cell the indices resolve to.
PlaceStone(game, row, col) ==
  LET r == PyIndex(row, game.size)
      c == PyIndex(col, game.size)
      player_color == IF game.is_black_turn THEN "Blue" ELSE "Red"
      placed == [game.board EXCEPT ![r][c] = IF game.is_black_turn THEN 1 ELSE 2]
  IN [game EXCEPT
        !.board = placed,
        !.moves_history = Append(@, <<player_color, c, r + 1>>),
        !.move_count = @ + 1,
        !.first_move = IF game.move_count + 1 = 1 THEN <<row, col>> ELSE @,
        !.is_black_turn = ~@,
        !.board_states = Append(@, placed),
        !.current_view_index = -1]

\* make_move without the test of paused.
make_move_while_paused(game, row, col) ==
  IF game.game_over THEN Outcome(game, "", FALSE)
  ELSE IF ~IndexOk(row, game.size) \/ ~IndexOk(col, game.size)
  THEN Outcome(game, "IndexError", None)
  ELSE IF game.board[PyIndex(row, game.size)][PyIndex(col, game.size)] # 0
  THEN Outcome(game, "", FALSE)
  ELSE Outcome(PlaceStone(game, row, col), "", TRUE)

\* make_move without the occupied-cell test: it overwrites a stone.
make_move_overwrite(game, row, col) ==
  IF game.paused \/ game.game_over THEN Outcome(game, "", FALSE)
  ELSE IF ~IndexOk(row, game.size) \/ ~IndexOk(col, game.size)
  THEN Outcome(game, "IndexError", None)
  ELSE Outcome(PlaceStone(game, row, col), "", TRUE)

\* HexGame.make_move.  The guard reads self.board[row][col] only when the
\* game is neither paused nor over.
make_move(game, row, col) ==
  IF game.paused \/ game.game_over THEN Outcome(game, "", FALSE)
  ELSE IF ~IndexOk(row, game.size) \/ ~IndexOk(col, game.size)
  THEN Outcome(game, "IndexError", None)
  ELSE IF game.board[PyIndex(row, game.size)][PyIndex(col, game.size)] # 0
  THEN Outcome(game, "", FALSE)
  ELSE Outcome(PlaceStone(game, row, col), "", TRUE)

\* The swap of the removed "mirrored position" logic: the first stone is
\* taken off and a Red stone put on the transposed cell.
swap_move_mirror(game) ==
  IF game.paused \/ game.move_count # 1 \/ game.is_black_turn
  THEN Outcome(game, "", FALSE)
  ELSE LET r == PyIndex(game.first_move[1], game.size)
           c == PyIndex(game.first_move[2], game.size)
           swapped == [[game.board EXCEPT ![r][c] = 0] EXCEPT ![c][r] = 2]
       IN Outcome([game EXCEPT
                     !.board = swapped,
                     !.moves_history = Append(@, <<"Red: Swap", r, c + 1>>),
                     !.move_count = @ + 1,
                     !.is_black_turn = ~@,
                     !.board_states = Append(@, swapped),
                     !.current_view_index = -1],
                  "", TRUE)

\* A swap that neither counts as a move nor hands over the turn, so that it
\* can be repeated.
swap_move_repeat(game) ==
  IF game.paused \/ game.move_count # 1 \/ game.is_black_turn
  THEN Outcome(game, "", FALSE)
  ELSE LET r == PyIndex(game.first_move[1], game.size)
           c == PyIndex(game.first_move[2], game.size)
           swapped == [game.board EXCEPT ![r][c] = 2]
       IN Outcome([game EXCEPT
                     !.board = swapped,
                     !.moves_history = Append(@, <<"Red: Swap", c, r + 1>>),
                     !.board_states = Append(@, swapped),
                     !.current_view_index = -1],
                  "", TRUE)

\* HexGame.swap_move.  first_move holds the indices make_move was given.
swap_move(game) ==
  IF game.paused \/ game.move_count # 1 \/ game.is_black_turn
  THEN Outcome(game, "", FALSE)
  ELSE LET r == PyIndex(game.first_move[1], game.size)
           c == PyIndex(game.first_move[2], game.size)
           swapped == [game.board EXCEPT ![r][c] = 2]
       IN Outcome([game EXCEPT
                     !.board = swapped,
                     !.moves_history = Append(@, <<"Red: Swap", c, r + 1>>),
                     !.move_count = @ + 1,
                     !.is_black_turn = ~@,
                     !.board_states = Append(@, swapped),
                     !.current_view_index = -1],
                  "", TRUE)

\* HexGame.check_winner: returns 1, 2 or None (0).
check_winner(game) ==
  IF check_win(game.board, 1)
  THEN Outcome([game EXCEPT !.game_over = TRUE, !.winner = 1], "", 1)
  ELSE IF check_win(game.board, 2)
  THEN Outcome([game EXCEPT !.game_over = TRUE, !.winner = 2], "", 2)
  ELSE Outcome(game, "", 0)

\* A reset that keeps the snapshots of the finished game.
reset_keeps_snapshots(game) ==
  [HexGame(game.size) EXCEPT !.board_states = game.board_states]

\* HexGame.reset
reset(game) == HexGame(game.size)

\* toggle_pause without the test of game_over.
toggle_pause_always(game) ==
  Outcome([game EXCEPT !.paused = ~@], "", ~game.paused)

\* HexGame.toggle_pause
toggle_pause(game) ==
  IF ~game.game_over
  THEN Outcome([game EXCEPT !.paused = ~@], "", ~game.paused)
  ELSE Outcome(game, "", FALSE)

\* What a window handler leaves behind: the game object, the number of
\* QTimer.singleShot(500, trigger_ai_move) calls it made, the exception
\* that left it, if any, and whether it called update_navigation_buttons.
Handled(game, scheduled, exc) ==
  [game |-> game, scheduled |-> scheduled, exc |-> exc, refreshed |-> FALSE]

\* The handler called update_navigation_buttons on its way.
Refreshed(done) == [done EXCEPT !.refreshed = TRUE]

\* HexWindow.update_navigation_buttons: the enabled state it gives the
\* Previous Move and Next Move buttons.
update_navigation_buttons(game) ==
  IF game.board_states = <<>>
  THEN [prev_move_button |-> FALSE, next_move_button |-> FALSE]
  ELSE IF game.current_view_index = -1
  THEN [prev_move_button |-> Len(game.board_states) > 0, next_move_button |-> FALSE]
  ELSE [prev_move_button |-> game.current_view_index > 0,
        next_move_button |-> game.current_view_index < Len(game.board_states) - 1]

\* HexWindow.show_previous_move.  board_states[i] in Python is
\* board_states[i + 1] here.
show_previous_move(game) ==
  IF game.board_states = <<>> THEN Handled(game, 0, "")
  ELSE LET index == IF game.current_view_index = -1
                    THEN Len(game.board_states) - 1
                    ELSE game.current_view_index
       IN IF index > 0
          THEN Refreshed(Handled([game EXCEPT
                                    !.current_view_index = index - 1,
                                    !.board = game.board_states[index],
                                    !.viewing_history = TRUE],
                                 0, ""))
          ELSE Handled([game EXCEPT !.current_view_index = index], 0, "")

\* HexWindow.show_next_move
show_next_move(game) ==
  IF game.board_states = <<>> THEN Handled(game, 0, "")
  ELSE IF game.current_view_index < Len(game.board_states) - 1
  THEN LET index == game.current_view_index + 1
           latest == index = Len(game.board_states) - 1
       IN Refreshed(Handled([game EXCEPT
                               !.board = game.board_states[index + 1],
                               !.viewing_history = IF latest THEN FALSE ELSE @,
                               !.current_view_index = IF latest THEN -1 ELSE index],
                            0, ""))
  ELSE Handled(game, 0, "")

\* The tail of mousePressEvent and of trigger_ai_move's search branch after a
\* successful move: check_winner, then either the winner message or the next
\* AI timer, which `again` decides.
AfterMove(game, again) ==
  LET checked == check_winner(game)
  IN IF checked.value # 0 THEN Refreshed(Handled(checked.game, 0, ""))
     ELSE Refreshed(Handled(checked.game, IF again THEN 1 ELSE 0, ""))

\* HexBoard.mousePressEvent for a click that lands on the hexagon `cell`.
mousePressEvent(game, game_mode, cell) ==
  LET allow_click ==
        /\ ~game.game_over
        /\ ~game.viewing_history
        /\ \/ game_mode = "PvA" /\ game.is_black_turn
           \/ game_mode = "PvP"
      moved ==
        IF /\ game_mode = "PvP"
           /\ game.move_count = 1
           /\ ~game.is_black_turn
           /\ cell = game.first_move
        THEN swap_move(game)
        ELSE make_move(game, cell[1], cell[2])
  IN IF game.paused THEN Handled(game, 0, "")
     ELSE IF ~allow_click THEN Handled(game, 0, "")
     ELSE IF moved.exc # "" THEN Handled(moved.game, 0, moved.exc)
     ELSE IF ~moved.value THEN Handled(moved.game, 0, "")
     ELSE AfterMove(moved.game, game_mode = "PvA" /\ ~moved.game.is_black_turn)

\* trigger_ai_move from "Get the best move" on: the set of outcomes over the
\* random draws of find_best_move.
AiSearchMove(game, game_mode, ai_depth) ==
  {IF best.exc # "" THEN Handled(game, 0, best.exc)
   ELSE IF best.value = <<-1, -1>> THEN Handled(game, 0, "")
   ELSE LET moved == make_move(game, best.value[1], best.value[2])
        IN IF moved.exc # "" THEN Handled(moved.game, 0, moved.exc)
           ELSE IF ~moved.value THEN Handled(moved.game, 0, "")
           ELSE AfterMove(moved.game, game_mode = "AvA")
   : best \in find_best_move(to_python_state(game), ai_depth)}

\* HexBoard.trigger_ai_move, the QTimer callback.
trigger_ai_move(game, game_mode, ai_depth) ==
  LET current_player == IF game.is_black_turn THEN 1 ELSE 2
      center == game.size \div 2
      swapped == swap_move(game)
      checked == check_winner(swapped.game)
  IN IF game.paused \/ game.game_over THEN {Handled(game, 0, "")}
     ELSE IF /\ game.move_count = 1
             /\ current_player = 2
             /\ Abs(game.first_move[1] - center) <= 1
             /\ Abs(game.first_move[2] - center) <= 1
             /\ swapped.value
     THEN {Handled(checked.game,
                   IF ~checked.game.game_over /\ game_mode = "AvA" THEN 1 ELSE 0, "")}
     ELSE AiSearchMove(game, game_mode, ai_depth)

\* HexWindow.toggle_pause, the pause button.
HexWindow_toggle_pause(game, game_mode) ==
  LET toggled == toggle_pause(game)
      is_now_paused == toggled.value
  IN Handled(toggled.game,
             IF /\ ~is_now_paused
                /\ ~toggled.game.game_over
                /\ \/ game_mode = "AvA"
                   \/ game_mode = "PvA" /\ ~toggled.game.is_black_turn
             THEN 1 ELSE 0,
             "")

\* HexWindow.reset_game, the New Game button.
reset_game(game, game_mode) ==
  LET resumed == IF game.paused THEN HexWindow_toggle_pause(game, game_mode)
                 ELSE Handled(game, 0, "")
  IN Refreshed(Handled(reset(resumed.game),
                       resumed.scheduled + (IF game_mode = "AvA" THEN 1 ELSE 0),
                       ""))

\* ------------------------------------------------------------ state
\* Bounds of the game and window specifications.
\* Largest board side of the game the window shows (11 in HexWindow).
MaxGameSize == 4
\* Largest move_count a game is played to.
MaxMoves == 2
\* Largest number of AI timers pending at once.
MaxTimers == 2

\* Boards of side up to MaxReplaySize are played in the window for up to
\* MaxReplayMoves moves, so that the move history can be walked back and forth.
MaxReplaySize == 2

MaxReplayMoves == 4

MoveBound(size) == IF size <= MaxReplaySize THEN MaxReplayMoves ELSE MaxMoves

\* state:            the HexState a caller hands to the back end
\* ret:              the last call or handler and its outcome
\* game:             the HexGame object
\* game_mode:        HexWindow.game_mode
\* current_ai_depth: HexWindow.current_ai_depth
\* timers:           pending QTimer.singleShot callbacks to trigger_ai_move
\* nav_enabled:      whether the Previous Move and Next Move buttons are enabled
VARIABLES state, ret, game, game_mode, current_ai_depth, timers, nav_enabled

vars == <<state, ret, game, game_mode, current_ai_depth, timers, nav_enabled>>

NoCall == [op |-> "none", arg |-> <<>>, exc |-> "", value |-> None]

\* HexWindow.__init__: Player vs AI at depth 3, no timer pending.
InitWindow ==
  /\ game_mode = "PvA"
  /\ current_ai_depth = 3
  /\ timers = 0
  /\ nav_enabled = [prev_move_button |-> TRUE, next_move_button |-> TRUE]

\* ---- the back end on its own
\* A caller builds a position: HexState(size, is_black_turn), then stones.
\* The board of the default side is only ever handed over empty.
InitCore ==
  /\ state \in {HexState(size, turn) :
                  size \in (1 .. MaxSize) \cup {DefaultSize}, turn \in BOOLEAN}
  /\ ret = NoCall
  /\ game = HexGame(1)
  /\ InitWindow

\* The caller writes one stone into state.board before calling the back end.
SetBoardCell(cell, player) ==
  /\ ret.op = "none"
  /\ BoardLen(state.board) <= MaxSize
  /\ state.board[cell[1]][cell[2]] = 0
  /\ CountCells(state.board, 1) + CountCells(state.board, 2) < MaxStones
  /\ state' = [state EXCEPT !.board[cell[1]][cell[2]] = player]
  /\ UNCHANGED <<ret, game, game_mode, current_ai_depth, timers, nav_enabled>>

CallCheckWin(player) ==
  /\ ret.op = "none"
  /\ ret' = [op |-> "check_win", arg |-> <<player>>, exc |-> "",
             value |-> check_win(state.board, player)]
  /\ UNCHANGED <<state, game, game_mode, current_ai_depth, timers, nav_enabled>>

CallFindBestMove(depth) ==
  /\ ret.op = "none"
  /\ \E done \in find_best_move_call(state, depth) :
       /\ state' = done.state
       /\ ret' = [op |-> "find_best_move", arg |-> <<depth>>,
                  exc |-> done.out.exc, value |-> done.out.value]
  /\ UNCHANGED <<game, game_mode, current_ai_depth, timers, nav_enabled>>

\* evaluate(state), of back.py or of hex_ai_ai.py.
CallEvaluate(module) ==
  /\ ret.op = "none"
  /\ BoardLen(state.board) <= MaxSize
  /\ ret' = [op |-> "evaluate", arg |-> <<module>>, exc |-> "",
             value |-> IF module = "back" THEN evaluate(state)
                       ELSE hex_ai_ai_evaluate(state)]
  /\ UNCHANGED <<state, game, game_mode, current_ai_depth, timers, nav_enabled>>

\* alpha_beta_search called on its own with the full window, as
\* find_best_move calls it.  It assigns to its clones only.
CallAlphaBetaSearch(depth, maximizing_player) ==
  /\ ret.op = "none"
  /\ BoardLen(state.board) <= MaxSearchSize
  /\ \E out \in alpha_beta_search(state, depth, -Inf, Inf, maximizing_player) :
       ret' = [op |-> "alpha_beta_search", arg |-> <<depth, maximizing_player>>,
               exc |-> out.exc,
               value |-> [score |-> out.score, move |-> out.move, visited |-> out.visited]]
  /\ UNCHANGED <<state, game, game_mode, current_ai_depth, timers, nav_enabled>>

\* check_win of hex_ai_ai.py.
CallHexAiCheckWin(player) ==
  /\ ret.op = "none"
  /\ ret' = [op |-> "hex_ai_ai.check_win", arg |-> <<player>>, exc |-> "",
             value |-> hex_ai_ai_check_win(state.board, player)]
  /\ UNCHANGED <<state, game, game_mode, current_ai_depth, timers, nav_enabled>>

NextCore ==
  \/ \E cell \in Cells(BoardLen(state.board)), player \in {1, 2} : SetBoardCell(cell, player)
  \/ \E player \in {1, 2} : CallCheckWin(player)
  \/ \E depth \in 0 .. MaxDepth : CallFindBestMove(depth)
  \/ \E module \in {"back", "hex_ai_ai"} : CallEvaluate(module)
  \/ \E depth \in 0 .. MaxDepth, maximizing_player \in BOOLEAN :
       CallAlphaBetaSearch(depth, maximizing_player)
  \/ \E player \in {1, 2} : CallHexAiCheckWin(player)

SpecCore == InitCore /\ [][NextCore]_vars

\* ---- the HexGame object, called directly
Init ==
  /\ game \in {HexGame(size) : size \in 1 .. MaxSize}
  /\ ret = NoCall
  /\ state = HexState(1, TRUE)
  /\ InitWindow

\* The indices a caller may pass: every valid one, and one beyond each end.
Coords(size) == (-(size + 1)) .. size

\* A call of a HexGame method: the object changes and the call is recorded
\* with what it returned ("TRUE", "FALSE", "1", ...) or raised.
Call(op, out) ==
  /\ out.game.move_count <= MaxMoves
  /\ game' = out.game
  /\ ret' = [op |-> op, arg |-> <<>>, exc |-> out.exc, value |-> ToString(out.value)]
  /\ UNCHANGED <<state, game_mode, current_ai_depth, timers, nav_enabled>>

MakeMove(row, col) == Call("make_move", make_move(game, row, col))

SwapMove == Call("swap_move", swap_move(game))

CheckWinner == Call("check_winner", check_winner(game))

Reset == Call("reset", Outcome(reset(game), "", None))

TogglePause == Call("toggle_pause", toggle_pause(game))

Next ==
  \/ \E row, col \in Coords(game.size) : MakeMove(row, col)
  \/ SwapMove
  \/ CheckWinner
  \/ Reset
  \/ TogglePause

Spec == Init /\ [][Next]_vars

\* ---- the window: user events and timer callbacks
\* The window shows one HexGame; its side is scaled down from 11.
InitGui ==
  /\ game \in {HexGame(size) : size \in 1 .. MaxGameSize}
  /\ ret = NoCall
  /\ state = HexState(1, TRUE)
  /\ InitWindow

\* A handler ran: the game changes, its timers are queued, the run is recorded.
Handle(op, done, fired) ==
  /\ done.game.move_count <= MoveBound(done.game.size)
  /\ timers - fired + done.scheduled <= MaxTimers
  /\ game' = done.game
  /\ timers' = timers - fired + done.scheduled
  /\ nav_enabled' = IF done.refreshed THEN update_navigation_buttons(done.game)
                    ELSE nav_enabled
  /\ ret' = [op |-> op, arg |-> <<>>, exc |-> done.exc, value |-> None]
  /\ UNCHANGED <<state, game_mode, current_ai_depth>>

\* The user clicks the hexagon of a cell.
MousePress(cell) ==
  Handle("mousePressEvent", mousePressEvent(game, game_mode, cell), 0)

\* A pending timer fires.
TriggerAiMove ==
  /\ timers > 0
  /\ \E done \in trigger_ai_move(game, game_mode, current_ai_depth) :
       Handle("trigger_ai_move", done, 1)

PressPause == Handle("toggle_pause", HexWindow_toggle_pause(game, game_mode), 0)

PressNewGame == Handle("reset_game", reset_game(game, game_mode), 0)

\* The Previous Move and Next Move buttons, which can be pressed while enabled.
ShowPreviousMove ==
  /\ nav_enabled.prev_move_button
  /\ Handle("show_previous_move", show_previous_move(game), 0)

ShowNextMove ==
  /\ nav_enabled.next_move_button
  /\ Handle("show_next_move", show_next_move(game), 0)

\* HexWindow.change_game_mode: with a game in progress the user is asked, and
\* either confirms (mode set, game reset) or cancels (nothing changes).
ChangeGameMode(new_mode, confirm) ==
  IF game.move_count > 0 /\ new_mode # game_mode
  THEN IF confirm
       THEN /\ game_mode' = new_mode
            /\ LET done == reset_game(game, new_mode)
               IN /\ timers + done.scheduled <= MaxTimers
                  /\ game' = done.game
                  /\ timers' = timers + done.scheduled
                  /\ nav_enabled' = update_navigation_buttons(done.game)
            /\ ret' = [op |-> "change_game_mode", arg |-> <<>>, exc |-> "", value |-> None]
            /\ UNCHANGED <<state, current_ai_depth>>
       ELSE /\ ret' = [op |-> "change_game_mode", arg |-> <<>>, exc |-> "", value |-> None]
            /\ UNCHANGED <<state, game, game_mode, current_ai_depth, timers, nav_enabled>>
  ELSE /\ game_mode' = new_mode
       /\ ret' = [op |-> "change_game_mode", arg |-> <<>>, exc |-> "", value |-> None]
       /\ UNCHANGED <<state, game, current_ai_depth, timers, nav_enabled>>

\* HexWindow.update_ai_difficulty: the same dialog for the search depth.
UpdateAiDifficulty(new_depth, confirm) ==
  IF game.move_count > 0 /\ new_depth # current_ai_depth
  THEN IF confirm
       THEN /\ current_ai_depth' = new_depth
            /\ LET done == reset_game(game, game_mode)
               IN /\ timers + done.scheduled <= MaxTimers
                  /\ game' = done.game
                  /\ timers' = timers + done.scheduled
                  /\ nav_enabled' = update_navigation_buttons(done.game)
            /\ ret' = [op |-> "update_ai_difficulty", arg |-> <<>>, exc |-> "", value |-> None]
            /\ UNCHANGED <<state, game_mode>>
       ELSE /\ ret' = [op |-> "update_ai_difficulty", arg |-> <<>>, exc |-> "", value |-> None]
            /\ UNCHANGED <<state, game, game_mode, current_ai_depth, timers, nav_enabled>>
  ELSE /\ current_ai_depth' = new_depth
       /\ ret' = [op |-> "update_ai_difficulty", arg |-> <<>>, exc |-> "", value |-> None]
       /\ UNCHANGED <<state, game, game_mode, timers, nav_enabled>>

NextGui ==
  \/ \E cell \in Cells(game.size) : MousePress(cell)
  \/ TriggerAiMove
  \/ PressPause
  \/ PressNewGame
  \/ ShowPreviousMove
  \/ ShowNextMove
  \/ \E new_mode \in {"PvP", "PvA", "AvA"}, confirm \in BOOLEAN : ChangeGameMode(new_mode, confirm)
  \/ \E new_depth \in 1 .. 3, confirm \in BOOLEAN : UpdateAiDifficulty(new_depth, confirm)

SpecGui == InitGui /\ [][NextGui]_vars

\* ---- the window left alone in AI-vs-AI mode
\* Something the user does: every handler but the timer's.
UserEvent ==
  \/ \E cell \in Cells(game.size) : MousePress(cell)
  \/ PressPause
  \/ PressNewGame
  \/ ShowPreviousMove
  \/ ShowNextMove
  \/ \E new_mode \in {"PvP", "PvA", "AvA"}, confirm \in BOOLEAN : ChangeGameMode(new_mode, confirm)
  \/ \E new_depth \in 1 .. 3, confirm \in BOOLEAN : UpdateAiDifficulty(new_depth, confirm)

\* The user has pressed New Game in AI-vs-AI mode and only timers have run since.
Watching == game_mode = "AvA" /\ ret.op \in {"reset_game", "trigger_ai_move"}

\* The user acts until the AI-vs-AI game is started and then only watches; the
\* event loop keeps running, so a pending timer fires in the end.
NextAvA ==
  \/ ~Watching /\ UserEvent
  \/ TriggerAiMove

SpecAvA == InitGui /\ [][NextAvA]_vars /\ WF_vars(TriggerAiMove)

\* ------------------------------------------------------------ properties
\* The six hex offsets, as the rules state them.
HexOffsets == {<<-1, 0>>, <<-1, 1>>, <<0, -1>>, <<0, 1>>, <<1, -1>>, <<1, 0>>}

StartEdge(size, player) ==
  IF player = 1 THEN {0} \X (0 .. size - 1) ELSE (0 .. size - 1) \X {0}

GoalEdge(size, player) ==
  IF player = 1 THEN {size - 1} \X (0 .. size - 1) ELSE (0 .. size - 1) \X {size - 1}

RECURSIVE ChainFrom(_, _, _)

\* The player's stones joined to the set S by chains of hex-adjacent stones.
ChainFrom(board, player, S) ==
  LET grown == S \cup {cell \in Cells(BoardLen(board)) :
                         /\ board[cell[1]][cell[2]] = player
                         /\ \E s \in S : <<cell[1] - s[1], cell[2] - s[2]>> \in HexOffsets}
  IN IF grown = S THEN S ELSE ChainFrom(board, player, grown)

\* A chain of the player's stones joins the start edge to the goal edge.
HasChain(board, player) ==
  LET size == BoardLen(board)
      seeds == {cell \in StartEdge(size, player) : board[cell[1]][cell[2]] = player}
  IN ChainFrom(board, player, seeds) \cap GoalEdge(size, player) # {}

Mover == IF state.is_black_turn THEN 1 ELSE 2

\* The empty cells whose occupation by the mover completes a winning chain.
WinningCells ==
  {cell \in Cells(BoardLen(state.board)) :
     /\ state.board[cell[1]][cell[2]] = 0
     /\ HasChain([state.board EXCEPT ![cell[1]][cell[2]] = Mover], Mover)}

NearCentre(size, cell) ==
  /\ Abs(cell[1] - size \div 2) <= 1
  /\ Abs(cell[2] - size \div 2) <= 1

Stones == {cell \in Cells(BoardLen(state.board)) : state.board[cell[1]][cell[2]] # 0}

\* C1 (as claimed): one move from a win for the mover, with no winner yet,
\* find_best_move with depth >= 1 returns a cell that completes the win.
C1_ReturnsWinningMove ==
  (/\ ret.op = "find_best_move"
   /\ ret.arg[1] >= 1
   /\ ~HasChain(state.board, 1)
   /\ ~HasChain(state.board, 2)
   /\ WinningCells # {})
  => (ret.exc = "" /\ ret.value \in WinningCells)

\* C2: check_win(board, p) is true exactly when a chain of p's stones,
\* consecutive cells one hex offset apart, joins p's start edge to p's goal
\* edge; so it is false on the empty board and true for the 3x3 column.
C2_WinIffChain ==
  ret.op = "check_win" => (ret.value <=> HasChain(state.board, ret.arg[1]))

\* C2 witness: player 1 holds (0,0), (1,0), (2,0) on a 3x3 board and wins.
C2_Witness ==
  /\ ret.op = "check_win"
  /\ ret.arg = <<1>>
  /\ BoardLen(state.board) = 3
  /\ Stones = {<<0, 0>>, <<1, 0>>, <<2, 0>>}
  /\ \A cell \in Stones : state.board[cell[1]][cell[2]] = 1
  /\ ret.value = TRUE

\* C3 (as claimed): whatever find_best_move returns is the sentinel (-1,-1)
\* or a legal move, an in-bounds empty cell of the given board.
C3_ReturnsLegalOrSentinel ==
  (ret.op = "find_best_move" /\ ret.exc = "")
  => \/ ret.value = <<-1, -1>>
     \/ /\ ret.value \in Cells(BoardLen(state.board))
        /\ state.board[ret.value[1]][ret.value[2]] = 0

\* C4 (as claimed): for every board and depth >= 1 find_best_move completes
\* without raising.
C4_NeverRaises ==
  (ret.op = "find_best_move" /\ ret.arg[1] >= 1) => ret.exc = ""

\* C5 (as claimed): on a board with no empty cell find_best_move returns the
\* sentinel (-1,-1) and does not raise, for either mover and any depth.
C5_FullBoardSentinel ==
  (ret.op = "find_best_move" /\ CountCells(state.board, 0) = 0)
  => (ret.exc = "" /\ ret.value = <<-1, -1>>)

\* C6: on an empty board of side N every jitter outcome of find_best_move is
\* a cell within Chebyshev distance 1 of the centre (N div 2, N div 2).
C6_OpeningNearCentre ==
  (ret.op = "find_best_move" /\ Stones = {})
  => (ret.exc = "" /\ NearCentre(BoardLen(state.board), ret.value))

\* C6 witness: the opening move on the empty 11x11 board, jittered off the
\* centre (5,5).
C6_Witness ==
  /\ ret.op = "find_best_move"
  /\ BoardLen(state.board) = DefaultSize
  /\ Stones = {}
  /\ ret.value = <<4, 5>>

\* C7 (as claimed): for player 2 on a board whose only stone is a player-1
\* stone within one cell of the centre, find_best_move returns that stone's
\* own cell.
C7_SwapReturnsStoneCell ==
  (/\ ret.op = "find_best_move"
   /\ ~state.is_black_turn
   /\ Cardinality(Stones) = 1
   /\ \A cell \in Stones : /\ state.board[cell[1]][cell[2]] = 1
                           /\ NearCentre(BoardLen(state.board), cell))
  => (ret.exc = "" /\ {ret.value} = Stones)

\* The transposed board with the two colours exchanged.
TransposeRelabel(board) ==
  [r \in DOMAIN board |->
     [c \in DOMAIN board |->
        IF board[c][r] = 0 THEN 0 ELSE 3 - board[c][r]]]

\* C11: check_win(B, p) equals check_win(T(B), 3 - p), where T(B) is the
\* transposed board with player 1 and player 2 stones exchanged.
C11_TransposeSymmetry ==
  ret.op = "check_win"
  => (ret.value <=> check_win(TransposeRelabel(state.board), 3 - ret.arg[1]))

\* C11 witness: player 2 wins along row 0 of a 3x3 board, whose transpose
\* is a player-1 column.
C11_Witness ==
  /\ ret.op = "check_win"
  /\ ret.arg = <<2>>
  /\ BoardLen(state.board) = 3
  /\ Stones = {<<0, 0>>, <<0, 1>>, <<0, 2>>}
  /\ \A cell \in Stones : state.board[cell[1]][cell[2]] = 2
  /\ ret.value = TRUE

Corners(size) == {0, size - 1} \X {0, size - 1}

Boundary(size) ==
  {cell \in Cells(size) : cell[1] \in {0, size - 1} \/ cell[2] \in {0, size - 1}}

NeighbourCount(size, cell) == Cardinality(neighbours(size, cell[1], cell[2]))

\* C12 (as claimed): on a board of side N >= 3 a cell off the boundary has 6
\* in-bounds neighbours, each of the four corners has exactly 2, and every
\* other boundary cell has 3 or 4.
C12_NeighbourCountsClaimed ==
  (ret.op = "check_win" /\ BoardLen(state.board) >= 3)
  => LET size == BoardLen(state.board)
     IN \A cell \in Cells(size) :
          IF cell \in Corners(size) THEN NeighbourCount(size, cell) = 2
          ELSE IF cell \in Boundary(size) THEN NeighbourCount(size, cell) \in {3, 4}
          ELSE NeighbourCount(size, cell) = 6

\* C12 (amended): on a board of side N >= 3 a cell off the boundary has 6
\* in-bounds neighbours, the corners (0,0) and (N-1,N-1) have exactly 2, the
\* corners (0,N-1) and (N-1,0) have exactly 3, and every other boundary cell
\* has exactly 4.
C12_NeighbourCounts ==
  (ret.op = "check_win" /\ BoardLen(state.board) >= 3)
  => LET size == BoardLen(state.board)
     IN \A cell \in Cells(size) :
          IF cell \in {<<0, 0>>, <<size - 1, size - 1>>} THEN NeighbourCount(size, cell) = 2
          ELSE IF cell \in Corners(size) THEN NeighbourCount(size, cell) = 3
          ELSE IF cell \in Boundary(size) THEN NeighbourCount(size, cell) = 4
          ELSE NeighbourCount(size, cell) = 6

\* C12 witness: the win check has run on the 11x11 board.
C12_Witness ==
  /\ ret.op = "check_win"
  /\ BoardLen(state.board) = DefaultSize
  /\ NeighbourCount(DefaultSize, <<0, DefaultSize - 1>>) = 3
  /\ NeighbourCount(DefaultSize, <<5, 5>>) = 6

Groups(board, player) ==
  Cardinality({ChainFrom(board, player, {cell}) :
                 cell \in {x \in Cells(BoardLen(board)) : board[x[1]][x[2]] = player}})

\* C15: evaluate(state) is +1000 when the player to move has a winning
\* chain, -1000 when only the other player has one, and otherwise the
\* heuristic score: the difference of the two players' group counts, taken
\* from the mover's side.  This holds for back.py and for hex_ai_ai.py.
C15_EvaluateWinLoss ==
  ret.op = "evaluate"
  => IF HasChain(state.board, Mover) THEN ret.value = 1000
     ELSE IF HasChain(state.board, 3 - Mover) THEN ret.value = -1000
     ELSE ret.value = Groups(state.board, Mover) - Groups(state.board, 3 - Mover)

\* C15 witness: player 2 has won and player 1 is to move, so back.py's
\* evaluate has returned -1000.
C15_Witness ==
  /\ ret.op = "evaluate"
  /\ ret.arg = <<"back">>
  /\ state.is_black_turn
  /\ HasChain(state.board, 2)
  /\ ret.value = -1000

\* The cell a pair of Python indices resolves to on the game's board.
Resolved(cell) == <<PyIndex(cell[1], game.size), PyIndex(cell[2], game.size)>>

\* C8 (as claimed): when the AI plays Red at move_count = 1 it swaps if and
\* only if the first move is within one cell of the centre; otherwise it
\* places a new Red stone and the first stone keeps its colour.
C8_AiSwapsIffNearCentre ==
  [][(/\ ret'.op = "trigger_ai_move"
      /\ timers > 0
      /\ ~game.paused
      /\ ~game.game_over
      /\ game.move_count = 1
      /\ ~game.is_black_turn)
     => IF NearCentre(game.size, game.first_move)
        THEN /\ ret'.exc = ""
             /\ game'.move_count = 2
             /\ game'.board = [game.board EXCEPT
                                 ![Resolved(game.first_move)[1]][Resolved(game.first_move)[2]] = 2]
        ELSE /\ ret'.exc = ""
             /\ game'.move_count = 2
             /\ \E cell \in Cells(game.size) :
                  /\ game.board[cell[1]][cell[2]] = 0
                  /\ game'.board = [game.board EXCEPT ![cell[1]][cell[2]] = 2]]_vars

\* C9 (as claimed): make_move with an out-of-bounds coordinate returns False
\* and leaves every field of the game unchanged; it places no stone and
\* raises nothing.
C9_OutOfBoundsRejected ==
  [][\A row, col \in Coords(game.size) :
       (/\ <<row, col>> \notin Cells(game.size)
        /\ MakeMove(row, col))
       => (ret'.exc = "" /\ ret'.value = "FALSE" /\ game' = game)]_vars

\* C10: make_move on an in-bounds cell that already holds a stone returns
\* False and leaves board, is_black_turn, move_count, first_move,
\* moves_history, board_states and current_view_index unchanged.
C10_OccupiedRejected ==
  [][\A row, col \in 0 .. game.size - 1 :
       (/\ game.board[row][col] # 0
        /\ MakeMove(row, col))
       => /\ ret'.exc = ""
          /\ ret'.value = "FALSE"
          /\ game'.board = game.board
          /\ game'.is_black_turn = game.is_black_turn
          /\ game'.move_count = game.move_count
          /\ game'.first_move = game.first_move
          /\ game'.moves_history = game.moves_history
          /\ game'.board_states = game.board_states
          /\ game'.current_view_index = game.current_view_index]_vars

\* C10 witness: make_move has just returned False on a game that is neither
\* paused nor over, so the cell it was given already held a stone.
C10_Witness ==
  /\ ret.op = "make_move"
  /\ ret.exc = ""
  /\ ret.value = "FALSE"
  /\ ~game.paused
  /\ ~game.game_over
  /\ game.move_count >= 1

\* C16: a swap_move that returns True recolours the first move's cell to
\* player 2 and changes no other cell, so the board still holds one stone;
\* move_count goes from 1 to 2, moves_history and board_states each grow by
\* one entry, and the turn passes to Blue.
C16_SwapEffects ==
  [][(SwapMove /\ ret'.value = "TRUE")
     => /\ game'.board = [game.board EXCEPT
                            ![Resolved(game.first_move)[1]][Resolved(game.first_move)[2]] = 2]
        /\ CountCells(game'.board, 0) = game.size * game.size - 1
        /\ game.move_count = 1
        /\ game'.move_count = 2
        /\ Len(game'.moves_history) = Len(game.moves_history) + 1
        /\ Len(game'.board_states) = Len(game.board_states) + 1
        /\ game'.board_states[Len(game'.board_states)] = game'.board
        /\ game'.is_black_turn = TRUE]_vars

\* C16 witness: swap_move has returned True on a 3x3 game whose first move
\* was off the diagonal.
C16_Witness ==
  /\ ret.op = "swap_move"
  /\ ret.value = "TRUE"
  /\ game.size = 3
  /\ game.board[0][1] = 2

\* C17 (as claimed): once check_winner has set game_over, every make_move
\* and every swap_move before the next reset returns False and leaves the
\* board, move_count and the turn as they were.
C17_NoMoveAfterGameOver ==
  [][(/\ game.game_over
      /\ \/ SwapMove
         \/ \E row, col \in Coords(game.size) : MakeMove(row, col))
     => /\ ret'.exc = ""
        /\ ret'.value = "FALSE"
        /\ game'.board = game.board
        /\ game'.move_count = game.move_count
        /\ game'.is_black_turn = game.is_black_turn]_vars

\* C18 (as claimed): alpha_beta_search scores from player 1's side at every
\* node: a position where player 1 has a winning chain scores +1000 and one
\* where player 2 has a winning chain scores -1000, at a maximizing and at a
\* minimizing ply alike.
C18_FixedPerspective ==
  (ret.op = "alpha_beta_search" /\ ret.exc = "")
  => /\ HasChain(state.board, 1) => ret.value.score = 1000
     /\ HasChain(state.board, 2) => ret.value.score = -1000

RECURSIVE Minimax(_, _, _)

\* Exhaustive minimax with alpha_beta_search's terminal tests and leaf
\* scores and no cut-off.
Minimax(position, depth, maximizing_player) ==
  LET player == IF maximizing_player THEN 1 ELSE 2
      size == BoardLen(position.board)
      empty == {cell \in Cells(size) : position.board[cell[1]][cell[2]] = 0}
      children == {Minimax([position EXCEPT !.board[cell[1]][cell[2]] = player],
                           depth - 1, ~maximizing_player) : cell \in empty}
  IN IF HasChain(position.board, player) THEN 1000
     ELSE IF HasChain(position.board, 3 - player) THEN -1000
     ELSE IF depth = 0 THEN evaluate_state(position, player)
     ELSE IF empty = {} THEN 0
     ELSE IF maximizing_player
     THEN CHOOSE best \in children : \A other \in children : best >= other
     ELSE CHOOSE best \in children : \A other \in children : best <= other

\* C19 (as claimed): started with alpha = -infinity and beta = +infinity,
\* alpha_beta_search returns the value of exhaustive minimax on the same
\* position, for every board, depth, side to move and visiting order.
C19_PruningPreservesValue ==
  ret.op = "alpha_beta_search"
  => /\ ret.exc = ""
     /\ ret.value.score = Minimax(state, ret.arg[1], ret.arg[2])

Distance(size, cell) == Abs(cell[1] - size \div 2) + Abs(cell[2] - size \div 2)

\* C20 (as claimed): at a node of the search the empty cells are visited in
\* ascending Manhattan distance to the centre: each visited candidate is at
\* least as close as every candidate not visited before it.
C20_VisitedByDistance ==
  ret.op = "alpha_beta_search"
  => LET size == BoardLen(state.board)
         visited == ret.value.visited
         Before(i) == {visited[k] : k \in 1 .. i - 1}
     IN \A i \in 1 .. Len(visited) :
          \A cell \in Cells(size) :
            (state.board[cell[1]][cell[2]] = 0 /\ cell \notin Before(i))
            => Distance(size, visited[i]) <= Distance(size, cell)

\* C21: players alternate, Blue first: is_black_turn is True exactly when
\* move_count is even, and a make_move that returns True puts a stone of the
\* mover's colour (1 if is_black_turn was True, else 2) on an empty cell.
C21_PlayersAlternate ==
  /\ [](game.is_black_turn <=> game.move_count % 2 = 0)
  /\ [][(ret'.op = "make_move" /\ ret'.value = "TRUE" /\ game' # game)
        => \E cell \in Cells(game.size) :
             /\ game.board[cell[1]][cell[2]] = 0
             /\ game'.board = [game.board EXCEPT
                                 ![cell[1]][cell[2]] = IF game.is_black_turn THEN 1 ELSE 2]]_vars

\* C21 witness: Red has answered Blue's first stone with a stone of its own.
C21_Witness ==
  /\ ret.op = "make_move"
  /\ ret.value = "TRUE"
  /\ game.move_count = 2
  /\ CountCells(game.board, 1) = 1
  /\ CountCells(game.board, 2) = 1

Swaps(history) == {i \in 1 .. Len(history) : history[i][1] = "Red: Swap"}

\* C22: swap_move returns True only with exactly one move made and Red to
\* move; between two resets at most one swap succeeds and it is the second
\* ply; from move_count >= 2 on swap_move returns False and changes nothing.
C22_SwapOnlySecondPly ==
  [][SwapMove
     => /\ ret'.value = "TRUE"
           => /\ game.move_count = 1
              /\ ~game.is_black_turn
              /\ game'.move_count = 2
              /\ Swaps(game'.moves_history) = {2}
        /\ game.move_count >= 2 => (ret'.value = "FALSE" /\ game' = game)]_vars

\* C22 witness: swap_move has just been refused on a game that already
\* holds its one swap.
C22_Witness ==
  /\ ret.op = "swap_move"
  /\ ret.value = "FALSE"
  /\ game.move_count = 2
  /\ Swaps(game.moves_history) = {2}
  /\ ~game.paused

\* C28: move_count, len(board_states) and len(moves_history) are equal in
\* every reachable state; a make_move or swap_move that returns True raises
\* all three by one, one that returns False changes none, and reset sets
\* all three to zero.
C28_CountersAgree ==
  /\ [](/\ game.move_count = Len(game.board_states)
        /\ game.move_count = Len(game.moves_history))
  /\ [][/\ (ret'.op \in {"make_move", "swap_move"} /\ ret'.value = "TRUE" /\ game' # game)
           => game'.move_count = game.move_count + 1
        /\ (ret'.op \in {"make_move", "swap_move"} /\ ret'.value = "FALSE" /\ ret # ret')
           => game'.move_count = game.move_count
        /\ (ret'.op = "reset" /\ ret # ret')
           => game'.move_count = 0]_vars

\* C28 witness: a swap has returned True and the three counters stand at 2.
C28_Witness ==
  /\ ret.op = "swap_move"
  /\ ret.value = "TRUE"
  /\ game.move_count = 2
  /\ Len(game.board_states) = 2
  /\ Len(game.moves_history) = 2

\* C30: the two Python win checkers agree: hex_ai_ai.check_win(board, p)
\* returns what back.has_winning_path(board, p) returns, for every board and
\* both players, although their dfs_path goal tests are written differently.
C30_CheckersAgree ==
  ret.op = "hex_ai_ai.check_win"
  => (ret.value <=> has_winning_path(state.board, ret.arg[1]))

\* C30 witness: hex_ai_ai.check_win has found player 2's win on a 3x3 board
\* whose chain bends: (1,0), (0,1), (0,2).
C30_Witness ==
  /\ ret.op = "hex_ai_ai.check_win"
  /\ ret.arg = <<2>>
  /\ BoardLen(state.board) = 3
  /\ Stones = {<<1, 0>>, <<0, 1>>, <<0, 2>>}
  /\ ret.value = TRUE


\* What a move changes: the stones, the counters, the turn and the two logs.
SamePosition(before, after) ==
  /\ after.board = before.board
  /\ after.move_count = before.move_count
  /\ after.is_black_turn = before.is_black_turn
  /\ after.moves_history = before.moves_history
  /\ after.board_states = before.board_states

\* C23: while the game is paused no move is made: make_move and swap_move
\* return False and leave the game as it was, a board click and a firing AI
\* timer leave the stones, move_count, is_black_turn, moves_history and
\* board_states unchanged; toggle_pause after game_over returns False and
\* leaves paused as it was, also behind the pause button.
C23_NoMoveWhilePaused ==
  /\ [](game.paused
         => /\ \A cell \in Cells(game.size) :
                 LET out == make_move(game, cell[1], cell[2])
                 IN ~out.value /\ out.game = game
            /\ ~swap_move(game).value
            /\ swap_move(game).game = game)
  /\ [](game.game_over
         => /\ ~toggle_pause(game).value
            /\ toggle_pause(game).game.paused = game.paused)
  /\ [][(ret'.op \in {"mousePressEvent", "trigger_ai_move"} /\ game.paused)
        => SamePosition(game, game')]_vars
  /\ [][(ret'.op = "toggle_pause" /\ game.game_over)
        => game'.paused = game.paused]_vars

\* A timer fired while a game with a stone on the board was paused.
C23_Witness ==
  /\ game.paused
  /\ game.move_count = 1
  /\ ret.op = "trigger_ai_move"


\* C24: whatever the order of user events and timer firings, a firing of
\* trigger_ai_move that makes a move (a stone or a swap) does so only for a
\* side the game mode gives to the AI: never in Player-vs-Player mode, and
\* only with Red to move in Player-vs-AI mode.
C24_AiMovesOnlyForAiSide ==
  [][(ret'.op = "trigger_ai_move" /\ game'.move_count = game.move_count + 1)
     => /\ game_mode # "PvP"
        /\ game_mode = "PvA" => ~game.is_black_turn]_vars


\* The cells in which two boards of one size differ.
ChangedCells(before, after) ==
  {cell \in Cells(BoardLen(before)) :
     before[cell[1]][cell[2]] # after[cell[1]][cell[2]]}

\* C25: between resets no stone is lost, whatever the order of moves, history
\* navigation and timer firings: every snapshot appended to board_states
\* differs from the one appended before it in exactly one cell, which was
\* empty and holds a stone, or held player 1's first stone and holds player
\* 2's after a swap.
C25_SnapshotsDifferInOneCell ==
  [][(game.board_states # <<>> /\ Len(game'.board_states) = Len(game.board_states) + 1)
     => LET before == game.board_states[Len(game.board_states)]
            after == game'.board_states[Len(game'.board_states)]
        IN /\ Cardinality(ChangedCells(before, after)) = 1
           /\ \A cell \in ChangedCells(before, after) :
                \/ before[cell[1]][cell[2]] = 0
                \/ /\ Len(game.board_states) = 1
                   /\ before[cell[1]][cell[2]] = 1
                   /\ after[cell[1]][cell[2]] = 2]_vars


\* C26: at most one AI move is pending at any time: there is never more than
\* one scheduled QTimer.singleShot callback to trigger_ai_move that has not
\* fired yet.
C26_AtMostOneTimer == timers <= 1


\* C29: under the window's handlers (click, AI timer, pause button, New Game,
\* history navigation) the game is never paused and over at once.
C29_NeverPausedAndOver == ~(game.paused /\ game.game_over)

\* The pause button was pressed on a finished game.
C29_Witness ==
  /\ game.game_over
  /\ game.winner # 0
  /\ ret.op = "toggle_pause"


\* C27: in AI-vs-AI mode, after New Game and with the user only watching, if
\* every scheduled timer fires in the end then the game reaches game_over
\* with a winner.
C27_AvAGameEnds ==
  (game_mode = "AvA" /\ ret.op = "reset_game")
    ~> (game.game_over /\ game.winner # 0)

====
